---- MODULE Spec2Model ----
(***************************************************************************)
(* Model of the instant-runoff tabulation of rcv.report, the function      *)
(* tabulateRCV(ballots, candidates), and of the report projection that     *)
(* main builds on its result, generateCandidateVoteData.                   *)
(* One state of the model is one point of one call of tabulateRCV: its two *)
(* arguments, its three locals (activeCandidates, rounds, roundNumber),    *)
(* the position of the call (before or after its return), the value it     *)
(* returned and the projection main made of it.  One step is one iteration *)
(* of the while loop, the fallback return that follows the loop, or the    *)
(* call of generateCandidateVoteData on the returned rounds.               *)
(***************************************************************************)
EXTENDS Integers, Sequences, FiniteSets, TLC

(***************************************************************************)
(* Bounds of the inputs.                                                   *)
(***************************************************************************)
\* Longest candidates list.
MaxCands == 4

\* Most ballots of one contest.
MaxBallots == 5

\* Most ranks on one ballot.
MaxRank == 2

\* Most ranks on one ballot in the runs checked for termination.
MaxRankFair == 1
MaxFiles == 3
MaxRuns == 3
MaxContests == 5

(***************************************************************************)
(* JavaScript values the code produces besides names and numbers.          *)
(***************************************************************************)
Null == "null"
Undefined == "undefined"

(***************************************************************************)
(* Sequences.                                                              *)
(***************************************************************************)
Range(s) == {s[i] : i \in DOMAIN s}

SeqsUpTo(S, n) == UNION {[1..k -> S] : k \in 0..n}

(***************************************************************************)
(* The inputs.  The candidates list has no duplicates, as the contract of  *)
(* tabulateRCV requires, and may be empty.  tabulateRCV reads a name only  *)
(* to compare it with other names, so renaming the names of an input       *)
(* renames the run: the model takes one candidates list per length, the    *)
(* first names of NamePool.  None of the names is an integer-like string,  *)
(* so a JavaScript object keyed by them lists its keys in insertion order, *)
(* and none is "X", the marker of the exhausted votes.                     *)
(* A choice on a ballot is one of the candidates or a name that is no      *)
(* candidate; all names that are no candidate behave alike, and the model  *)
(* writes the first unused name for them.                                  *)
(*                                                                         *)
(* A ballot is an object with its ranked choices.  The loop that counts    *)
(* the ballots adds one to a counter per ballot, so two ballot lists that  *)
(* are permutations of one another take the call through the same states;  *)
(* the model takes one list per multiset of ballots, the one in            *)
(* non-decreasing order of ChoiceCode.                                     *)
(***************************************************************************)
NamePool == <<"A", "B", "C", "D", "E", "F">>

Names == {NamePool[i] : i \in 1..MaxCands}

NameCode(n) == CHOOSE i \in DOMAIN NamePool : NamePool[i] = n

CandidateLists == {SubSeq(NamePool, 1, k) : k \in 0..MaxCands}

ChoiceNames(cs) == Range(cs) \cup {n \in Names : NameCode(n) = Len(cs) + 1}

\* A list of choices as a number, and back: one digit per rank.
RECURSIVE ChoiceCode(_)
ChoiceCode(ch) ==
    IF ch = <<>> THEN 0
    ELSE NameCode(Head(ch)) + (Len(NamePool) + 1) * ChoiceCode(Tail(ch))

RECURSIVE ChoicesOfCode(_)
ChoicesOfCode(code) ==
    IF code = 0 THEN <<>>
    ELSE <<NamePool[code % (Len(NamePool) + 1)]>>
             \o ChoicesOfCode(code \div (Len(NamePool) + 1))

ChoiceCodes(cs, maxRank) ==
    {ChoiceCode(ch) : ch \in SeqsUpTo(ChoiceNames(cs), maxRank)}

\* The lists of n ballots, as lists of codes in non-decreasing order.
SortedCodeLists(n, codes) ==
    {f \in [1..n -> codes] : \A i \in 1..(n - 1) : f[i] <= f[i + 1]}

BallotsOfCodes(f) == [i \in DOMAIN f |-> [choices |-> ChoicesOfCode(f[i])]]

(***************************************************************************)
(* JavaScript Set: membership, and iteration in insertion order.           *)
(***************************************************************************)
SetHas(set, x) == \E i \in DOMAIN set : set[i] = x

RECURSIVE NewSet(_)
NewSet(items) ==
    IF items = <<>> THEN <<>>
    ELSE LET init == NewSet(SubSeq(items, 1, Len(items) - 1))
             last == items[Len(items)]
         IN  IF SetHas(init, last) THEN init ELSE Append(init, last)

SetDelete(set, x) == SelectSeq(set, LAMBDA y : y # x)

\* Mutant of SetDeleteAll: the eliminated candidates are deleted from a copy
\* of the Set, which stays as it was.
SetDeleteAllFromCopy(set, xs) == set

\* Mutant of SetDeleteAll: only the first of the candidates to eliminate is
\* deleted.
SetDeleteAllOnlyFirst(set, xs) ==
    IF xs = <<>> THEN set ELSE SetDelete(set, Head(xs))

RECURSIVE SetDeleteAll(_, _)
SetDeleteAll(set, xs) ==
    IF xs = <<>> THEN set ELSE SetDeleteAll(SetDelete(set, Head(xs)), Tail(xs))

(***************************************************************************)
(* JavaScript object keyed by names: a function from its keys to their     *)
(* values.  Its keys are listed in the order they were inserted, which for *)
(* voteCounts is the iteration order of activeCandidates.                  *)
(***************************************************************************)
ObjectKeys(obj, order) == SelectSeq(order, LAMBDA k : k \in DOMAIN obj)

ObjectValues(obj, order) ==
    [i \in DOMAIN ObjectKeys(obj, order) |-> obj[ObjectKeys(obj, order)[i]]]

RECURSIVE SumSeq(_)
SumSeq(values) ==
    IF values = <<>> THEN 0 ELSE Head(values) + SumSeq(Tail(values))

\* Math.max and Math.min of a non-empty list of numbers.
MathMax(values) ==
    CHOOSE m \in Range(values) : \A v \in Range(values) : v <= m

MathMin(values) ==
    CHOOSE m \in Range(values) : \A v \in Range(values) : m <= v

\* Array.prototype.find: the first element that passes the test, else
\* undefined.  The test is given as the set of the values that pass it.
ArrayFind(arr, passing) ==
    IF \E i \in DOMAIN arr : arr[i] \in passing
    THEN arr[CHOOSE i \in DOMAIN arr :
                 /\ arr[i] \in passing
                 /\ \A j \in 1..(i - 1) : arr[j] \notin passing]
    ELSE Undefined

(***************************************************************************)
(* The body of one iteration of the loop of tabulateRCV.                   *)
(***************************************************************************)
\* for (let candidate of activeCandidates) voteCounts[candidate] = 0
InitVoteCounts(active) == [c \in Range(active) |-> 0]

\* Mutant of FirstActiveChoice: only the first rank of the ballot is read.
FirstRankIfActive(choices, active) ==
    IF choices # <<>> /\ SetHas(active, Head(choices))
    THEN <<Head(choices)>>
    ELSE <<>>

\* The inner scan of one ballot: the first choice that is active, as a list
\* of one name, or the empty list when the scan ends without a vote.
RECURSIVE FirstActiveChoice(_, _)
FirstActiveChoice(choices, active) ==
    IF choices = <<>> THEN <<>>
    ELSE IF SetHas(active, Head(choices)) THEN <<Head(choices)>>
    ELSE FirstActiveChoice(Tail(choices), active)

\* Mutant of CountBallot: the scan of the choices has lost its break, and
\* every active choice of the ballot receives a vote.
RECURSIVE CountEveryActiveChoice(_, _, _)
CountEveryActiveChoice(voteCounts, choices, active) ==
    IF choices = <<>> THEN voteCounts
    ELSE CountEveryActiveChoice(
             IF SetHas(active, Head(choices))
             THEN [voteCounts EXCEPT ![Head(choices)] = @ + 1]
             ELSE voteCounts,
             Tail(choices), active)

CountBallotNoBreak(counts, ballot, active) ==
    IF FirstActiveChoice(ballot.choices, active) # <<>>
    THEN [counts EXCEPT
              !.voteCounts = CountEveryActiveChoice(@, ballot.choices, active)]
    ELSE [counts EXCEPT !.exhaustedCount = @ + 1]

\* Mutant of CountBallot: a ballot without choices is passed over, neither a
\* vote nor exhausted.
CountBallotSkipEmpty(counts, ballot, active) ==
    LET voted == FirstActiveChoice(ballot.choices, active)
    IN  IF voted # <<>>
        THEN [counts EXCEPT !.voteCounts[voted[1]] = @ + 1]
        ELSE IF ballot.choices = <<>> THEN counts
        ELSE [counts EXCEPT !.exhaustedCount = @ + 1]

\* One ballot of the counting loop, on the counters so far.
CountBallot(counts, ballot, active) ==
    LET voted == FirstActiveChoice(ballot.choices, active)
    IN  IF voted # <<>>
        THEN [counts EXCEPT !.voteCounts[voted[1]] = @ + 1]
        ELSE [counts EXCEPT !.exhaustedCount = @ + 1]

\* for (let ballot of ballots) ...
RECURSIVE CountBallots(_, _, _)
CountBallots(counts, bs, active) ==
    IF bs = <<>> THEN counts
    ELSE CountBallots(CountBallot(counts, Head(bs), active), Tail(bs), active)

CountRound(bs, active) ==
    CountBallots([voteCounts |-> InitVoteCounts(active), exhaustedCount |-> 0],
                 bs, active)

TotalVotes(voteCounts, active) == SumSeq(ObjectValues(voteCounts, active))

\* Mutant of MajorityThreshold: Math.ceil in place of Math.floor.
MajorityThresholdCeil(totalVotes) == ((totalVotes + 1) \div 2) + 1

\* Mutant of MajorityThreshold: half of the votes, without the + 1.
MajorityThresholdHalf(totalVotes) == totalVotes \div 2

MajorityThreshold(totalVotes) == (totalVotes \div 2) + 1

MaxVotes(voteCounts, active) == MathMax(ObjectValues(voteCounts, active))

MinVotes(voteCounts, active) == MathMin(ObjectValues(voteCounts, active))

RoundWinner(voteCounts, active) ==
    ArrayFind(ObjectKeys(voteCounts, active),
              {c \in DOMAIN voteCounts :
                  voteCounts[c] = MaxVotes(voteCounts, active)})

\* Mutant of HasWinner: the comparison with the threshold is off by one.
HasWinnerOffByOne(maxVotes, majorityThreshold, activeSize) ==
    maxVotes >= majorityThreshold - 1 \/ activeSize <= 1

HasWinner(maxVotes, majorityThreshold, activeSize) ==
    maxVotes >= majorityThreshold \/ activeSize <= 1

\* Mutant of ToEliminate: find in place of filter, the first of the candidates
\* with the fewest votes only.
ToEliminateFirst(voteCounts, active) ==
    <<ArrayFind(ObjectKeys(voteCounts, active),
                {c \in DOMAIN voteCounts :
                    voteCounts[c] = MinVotes(voteCounts, active)})>>

ToEliminate(voteCounts, active) ==
    SelectSeq(ObjectKeys(voteCounts, active),
              LAMBDA c : voteCounts[c] = MinVotes(voteCounts, active))

\* The marker of the exhausted votes in a round's allocations.
ExhaustedMarker == "X"

\* Mutant of Allocations: the entry of the exhausted votes is pushed without
\* the test exhaustedCount > 0.
AllocationsAlwaysExhausted(voteCounts, exhaustedCount, active) ==
    Append([i \in DOMAIN ObjectKeys(voteCounts, active) |->
               [allocatee |-> ObjectKeys(voteCounts, active)[i],
                votes |-> voteCounts[ObjectKeys(voteCounts, active)[i]]]],
           [allocatee |-> ExhaustedMarker, votes |-> exhaustedCount])

Allocations(voteCounts, exhaustedCount, active) ==
    LET entries == [i \in DOMAIN ObjectKeys(voteCounts, active) |->
                       [allocatee |-> ObjectKeys(voteCounts, active)[i],
                        votes |-> voteCounts[ObjectKeys(voteCounts, active)[i]]]]
    IN  IF exhaustedCount > 0
        THEN Append(entries,
                    [allocatee |-> ExhaustedMarker, votes |-> exhaustedCount])
        ELSE entries

\* hasWinner of the round with these vote counts.
RoundHasWinner(voteCounts, active) ==
    HasWinner(MaxVotes(voteCounts, active),
              MajorityThreshold(TotalVotes(voteCounts, active)),
              Len(active))

\* Mutant of RoundRecord: the record's exhausted is the count of the active
\* votes, totalVotes, in place of exhaustedCount.
RoundRecordExhaustedSwapped(number, counts, active) ==
    LET voteCounts == counts.voteCounts
        hasWinner == RoundHasWinner(voteCounts, active)
    IN  [round |-> number,
         tally |-> voteCounts,
         allocations |-> Allocations(voteCounts, counts.exhaustedCount, active),
         eliminated |-> IF hasWinner THEN <<>>
                        ELSE ToEliminate(voteCounts, active),
         exhausted |-> TotalVotes(voteCounts, active),
         winner |-> IF hasWinner THEN RoundWinner(voteCounts, active) ELSE Null]

\* rounds.push({...})
RoundRecord(number, counts, active) ==
    LET voteCounts == counts.voteCounts
        hasWinner == RoundHasWinner(voteCounts, active)
    IN  [round |-> number,
         tally |-> voteCounts,
         allocations |-> Allocations(voteCounts, counts.exhaustedCount, active),
         eliminated |-> IF hasWinner THEN <<>>
                        ELSE ToEliminate(voteCounts, active),
         exhausted |-> counts.exhaustedCount,
         winner |-> IF hasWinner THEN RoundWinner(voteCounts, active) ELSE Null]

\* The object returned from inside the loop.
MajorityResult(allRounds, number, counts, active, bs) ==
    [rounds |-> allRounds,
     winner |-> RoundWinner(counts.voteCounts, active),
     totalRounds |-> number,
     totalBallots |-> Len(bs),
     finalTally |-> counts.voteCounts]

\* Mutant of FallbackResult: totalRounds is the round number, without - 1.
FallbackResultNoMinusOne(allRounds, number, active, bs) ==
    LET remainingCandidate == IF active = <<>> THEN Undefined ELSE active[1]
    IN  [rounds |-> allRounds,
         winner |-> remainingCandidate,
         totalRounds |-> number,
         totalBallots |-> Len(bs),
         finalTally |-> [c \in {remainingCandidate} |-> Len(bs)]]

\* The object returned after the loop.
FallbackResult(allRounds, number, active, bs) ==
    LET remainingCandidate == IF active = <<>> THEN Undefined ELSE active[1]
    IN  [rounds |-> allRounds,
         winner |-> remainingCandidate,
         totalRounds |-> number - 1,
         totalBallots |-> Len(bs),
         finalTally |-> [c \in {remainingCandidate} |-> Len(bs)]]

(***************************************************************************)
(* generateCandidateVoteData(rounds, candidates): the performance of every *)
(* candidate over the rounds of a result.  A value that is a number or     *)
(* null (roundEliminated) is a list of one number or the empty list.       *)
(***************************************************************************)
\* rounds[i]?.tally[candidateName] || 0, for the round at place i of none.
TallyOrZero(allRounds, i, candidateName) ==
    IF i \in DOMAIN allRounds /\ candidateName \in DOMAIN allRounds[i].tally
    THEN allRounds[i].tally[candidateName]
    ELSE 0

FirstRoundVotes(allRounds, candidateName) ==
    TallyOrZero(allRounds, 1, candidateName)

FinalVotes(allRounds, candidateName) ==
    TallyOrZero(allRounds, Len(allRounds), candidateName)

\* Mutant of TransferVotes: the difference is taken the wrong way round.
TransferVotesSwapped(finalVotes, firstRoundVotes) ==
    IF firstRoundVotes - finalVotes > 0 THEN firstRoundVotes - finalVotes ELSE 0

\* Math.max(0, finalVotes - firstRoundVotes)
TransferVotes(finalVotes, firstRoundVotes) ==
    IF finalVotes - firstRoundVotes > 0 THEN finalVotes - firstRoundVotes ELSE 0

\* Mutant of RoundEliminated: the index of the loop, without the + 1.
RoundEliminatedZeroBased(allRounds, candidateName) ==
    LET hits == {i \in DOMAIN allRounds :
                    SetHas(allRounds[i].eliminated, candidateName)}
    IN  IF hits = {} THEN <<>>
        ELSE <<(CHOOSE i \in hits : \A j \in hits : i <= j) - 1>>

\* The loop over the rounds: the first round whose eliminated list includes
\* the candidate, counted from 1, or null.
RoundEliminated(allRounds, candidateName) ==
    LET hits == {i \in DOMAIN allRounds :
                    SetHas(allRounds[i].eliminated, candidateName)}
    IN  IF hits = {} THEN <<>>
        ELSE <<CHOOSE i \in hits : \A j \in hits : i <= j>>

\* finalRound?.winner
FinalRoundWinner(allRounds) ==
    IF allRounds = <<>> THEN Undefined ELSE allRounds[Len(allRounds)].winner

\* candidateVotes.push({...})
CandidatePerformance(allRounds, candidateName) ==
    LET firstRoundVotes == FirstRoundVotes(allRounds, candidateName)
    IN  [candidate |-> candidateName,
         name |-> candidateName,
         firstRoundVotes |-> firstRoundVotes,
         transferVotes |-> TransferVotes(FinalVotes(allRounds, candidateName),
                                         firstRoundVotes),
         votes |-> firstRoundVotes,
         roundEliminated |-> RoundEliminated(allRounds, candidateName),
         winner |-> (candidateName = FinalRoundWinner(allRounds))]

\* The key of the sort: firstRoundVotes + transferVotes.
SortTotal(entry) == entry.firstRoundVotes + entry.transferVotes

\* Mutant of CompareFn: ascending order.
CompareFnAscending(a, b) == SortTotal(a) - SortTotal(b)

\* The compare function given to sort: negative when a goes before b.
CompareFn(a, b) == SortTotal(b) - SortTotal(a)

\* Array.prototype.sort with CompareFn.  The sort is stable: an element goes
\* behind every element it does not have to precede.
InsertSorted(sorted, entry) ==
    LET behind == {i \in DOMAIN sorted : CompareFn(entry, sorted[i]) >= 0}
        k == Cardinality(behind)
    IN  SubSeq(sorted, 1, k) \o <<entry>> \o SubSeq(sorted, k + 1, Len(sorted))

RECURSIVE ArraySort(_)
ArraySort(arr) ==
    IF arr = <<>> THEN <<>>
    ELSE InsertSorted(ArraySort(SubSeq(arr, 1, Len(arr) - 1)), arr[Len(arr)])

GenerateCandidateVoteData(allRounds, cs) ==
    ArraySort([i \in DOMAIN cs |-> CandidatePerformance(allRounds, cs[i])])

(***************************************************************************)
(* The state of one call.                                                  *)
(***************************************************************************)
VARIABLES
    candidates,        \* argument: the candidate names, in declaration order
    ballots,           \* argument: the ballots
    activeCandidates,  \* local: the Set of candidates not yet eliminated
    rounds,            \* local: the round records pushed so far
    roundNumber,       \* local: the number of the round about to be counted
    pc,                \* "loop": at the test of the while loop; "done": returned
    result,            \* the returned object, as a list of none or one
    candidateVotes,    \* main: the projection of the result, as a list of
                       \* none or one
    other,             \* a second call of tabulateRCV, running at the same
                       \* time: its arguments, locals, position and result
    \* ElectionIngester
    processedFiles,    \* the table _processed_files: the status of each file
                       \* name, "none" for a name without a row
    files,             \* ingestFullElection: the files of scanDirectory
    filesToProcess,    \* ingestFullElection: the files given to processFiles
    fileIndex,         \* processFiles: i, counted from 1
    ingestPc,          \* "idle": no run; "mark": at the test of the for loop;
                       \* "process": the file is marked and being processed;
                       \* "returned": processFiles has returned
    runCount,          \* the ingestFullElection runs started so far
    \* ingest_all_contests
    contests,          \* main: the discovered contests
    contestIndex,      \* main: i, counted from 1
    successCount,      \* main
    failureCount,      \* main
    metaFile,          \* whether temp_meta/us/ny/nyc/nyc.json exists
    outcomes,          \* what became of each call of ingestSingleContest, in
                       \* the order of the calls
    fatalError,        \* main: whether the outer catch was entered
    exitCode,          \* the exit code of the process, as a list of none or one
    mainPc             \* "start"; "loop": at the test of the for loop; "run":
                       \* awaiting the command of a contest; "exited"

vars == <<candidates, ballots, activeCandidates, rounds, roundNumber, pc, result,
          candidateVotes, other, processedFiles, files, filesToProcess, fileIndex,
          ingestPc, runCount, contests, contestIndex, successCount,
          failureCount, metaFile, outcomes, fatalError, exitCode, mainPc>>

\* The variables of the first call and of main.
tabVars == <<candidates, ballots, activeCandidates, rounds, roundNumber, pc,
             result, candidateVotes>>

\* The variables of ElectionIngester.
ingestVars == <<processedFiles, files, filesToProcess, fileIndex, ingestPc,
                runCount>>

\* The variables of ingest_all_contests.
contestVars == <<contests, contestIndex, successCount, failureCount, metaFile,
                 outcomes, fatalError, exitCode, mainPc>>

\* The variables of what else may run.
restVars == <<other, ingestVars, contestVars>>

\* No second call.
NoCall == [candidates |-> <<>>, ballots |-> <<>>, activeCandidates |-> <<>>,
           rounds |-> <<>>, roundNumber |-> 1, pc |-> "none", result |-> <<>>]

\* No file names, and no ingestion run.
IngesterIdle ==
    /\ processedFiles = <<>>
    /\ files = <<>>
    /\ filesToProcess = <<>>
    /\ fileIndex = 1
    /\ ingestPc = "none"
    /\ runCount = 0

\* The contests script does not run.
ContestsIdle ==
    /\ contests = <<>>
    /\ contestIndex = 1
    /\ successCount = 0
    /\ failureCount = 0
    /\ metaFile = FALSE
    /\ outcomes = <<>>
    /\ fatalError = FALSE
    /\ exitCode = <<>>
    /\ mainPc = "none"

\* No call of tabulateRCV.
TabulationIdle ==
    /\ candidates = <<>>
    /\ ballots = <<>>
    /\ activeCandidates = <<>>
    /\ rounds = <<>>
    /\ roundNumber = 1
    /\ pc = "none"
    /\ result = <<>>
    /\ candidateVotes = <<>>

\* Nothing else runs.
RestIdle == other = NoCall /\ IngesterIdle /\ ContestsIdle

\* The state at the test of the loop on entry, for an input whose ballots
\* hold at most maxRank ranks.
Entry(maxRank) ==
    /\ candidates \in CandidateLists
    /\ \E n \in 0..MaxBallots :
           \E f \in SortedCodeLists(n, ChoiceCodes(candidates, maxRank)) :
               ballots = BallotsOfCodes(f)
    /\ activeCandidates = NewSet(candidates)
    /\ rounds = <<>>
    /\ roundNumber = 1
    /\ pc = "loop"
    /\ result = <<>>
    /\ candidateVotes = <<>>
    /\ RestIdle

Init == Entry(MaxRank)

\* The ballots, each without its first choice.
ShiftedBallots(bs) ==
    [j \in DOMAIN bs |->
        [choices |-> IF bs[j].choices = <<>> THEN <<>> ELSE Tail(bs[j].choices)]]

\* Mutant of LoopIteration: after the round is counted, the first choice of
\* every ballot is taken off (ballot.choices.shift()).
LoopIterationShifting ==
    /\ pc = "loop"
    /\ Len(activeCandidates) > 1
    /\ LET counts == CountRound(ballots, activeCandidates)
           record == RoundRecord(roundNumber, counts, activeCandidates)
       IN  /\ rounds' = Append(rounds, record)
           /\ IF RoundHasWinner(counts.voteCounts, activeCandidates)
              THEN /\ result' = <<MajorityResult(rounds', roundNumber, counts,
                                                 activeCandidates, ballots)>>
                   /\ pc' = "done"
                   /\ UNCHANGED <<activeCandidates, roundNumber>>
              ELSE /\ activeCandidates' =
                          SetDeleteAll(activeCandidates,
                                       ToEliminate(counts.voteCounts,
                                                   activeCandidates))
                   /\ roundNumber' = roundNumber + 1
                   /\ UNCHANGED <<pc, result>>
    /\ ballots' = ShiftedBallots(ballots)
    /\ UNCHANGED <<candidates, candidateVotes>>
    /\ UNCHANGED restVars

\* Mutant of LoopIteration: activeCandidates is the candidates array itself,
\* not a Set made from it, and the eliminated candidates are taken out of it.
LoopIterationAliasing ==
    /\ pc = "loop"
    /\ Len(activeCandidates) > 1
    /\ LET counts == CountRound(ballots, activeCandidates)
           record == RoundRecord(roundNumber, counts, activeCandidates)
       IN  /\ rounds' = Append(rounds, record)
           /\ IF RoundHasWinner(counts.voteCounts, activeCandidates)
              THEN /\ result' = <<MajorityResult(rounds', roundNumber, counts,
                                                 activeCandidates, ballots)>>
                   /\ pc' = "done"
                   /\ UNCHANGED <<activeCandidates, roundNumber>>
              ELSE /\ activeCandidates' =
                          SetDeleteAll(activeCandidates,
                                       ToEliminate(counts.voteCounts,
                                                   activeCandidates))
                   /\ roundNumber' = roundNumber + 1
                   /\ UNCHANGED <<pc, result>>
    /\ candidates' = activeCandidates'
    /\ UNCHANGED <<ballots, candidateVotes>>
    /\ UNCHANGED restVars

\* One iteration of while (activeCandidates.size > 1).
LoopIteration ==
    /\ pc = "loop"
    /\ Len(activeCandidates) > 1
    /\ LET counts == CountRound(ballots, activeCandidates)
           record == RoundRecord(roundNumber, counts, activeCandidates)
       IN  /\ rounds' = Append(rounds, record)
           /\ IF RoundHasWinner(counts.voteCounts, activeCandidates)
              THEN /\ result' = <<MajorityResult(rounds', roundNumber, counts,
                                                 activeCandidates, ballots)>>
                   /\ pc' = "done"
                   /\ UNCHANGED <<activeCandidates, roundNumber>>
              ELSE /\ activeCandidates' =
                          SetDeleteAll(activeCandidates,
                                       ToEliminate(counts.voteCounts,
                                                   activeCandidates))
                   /\ roundNumber' = roundNumber + 1
                   /\ UNCHANGED <<pc, result>>
    /\ UNCHANGED <<candidates, ballots, candidateVotes>>
    /\ UNCHANGED restVars

\* The loop test fails: the return after the loop.
FallbackReturn ==
    /\ pc = "loop"
    /\ Len(activeCandidates) <= 1
    /\ result' = <<FallbackResult(rounds, roundNumber, activeCandidates, ballots)>>
    /\ pc' = "done"
    /\ UNCHANGED <<candidates, ballots, activeCandidates, rounds, roundNumber,
                   candidateVotes>>
    /\ UNCHANGED restVars

Next == LoopIteration \/ FallbackReturn

Spec == Init /\ [][Next]_vars

\* The call runs to its return: it is synchronous code that nothing suspends.
\* The runs checked for termination are those on ballots of few ranks.
FairSpec == Entry(MaxRankFair) /\ [][Next]_vars /\ WF_vars(Next)

\* The lists that hold the elements of s in some order.
PermutationsOf(s) ==
    {[i \in DOMAIN s |-> s[f[i]]] :
        f \in {g \in [DOMAIN s -> DOMAIN s] :
                  \A i, j \in DOMAIN s : g[i] = g[j] => i = j}}

\* The contest of the first example scenario: candidates A, B, C and the
\* ballots 3 x [A, B], 2 x [B, A], 1 x [C], each in any order.
ExampleCandidates == <<"A", "B", "C">>

ExampleBallots ==
    <<[choices |-> <<"A", "B">>], [choices |-> <<"A", "B">>],
      [choices |-> <<"A", "B">>], [choices |-> <<"B", "A">>],
      [choices |-> <<"B", "A">>], [choices |-> <<"C">>]>>

ExampleEntry ==
    /\ candidates \in PermutationsOf(ExampleCandidates)
    /\ ballots \in PermutationsOf(ExampleBallots)
    /\ activeCandidates = NewSet(candidates)
    /\ rounds = <<>>
    /\ roundNumber = 1
    /\ pc = "loop"
    /\ result = <<>>
    /\ candidateVotes = <<>>
    /\ RestIdle

\* candidateVotes = generateCandidateVoteData(results.rounds, candidateNames)
Project ==
    /\ pc = "done"
    /\ candidateVotes = <<>>
    /\ candidateVotes' = <<GenerateCandidateVoteData(result[1].rounds, candidates)>>
    /\ UNCHANGED <<candidates, ballots, activeCandidates, rounds, roundNumber,
                   pc, result>>
    /\ UNCHANGED restVars

ReportNext == LoopIteration \/ FallbackReturn \/ Project

\* The tabulation of a contest followed by the projection of its result.
ReportSpec == Init /\ [][ReportNext]_vars

\* The steps of main on the example contest, whose tabulation returns from
\* inside the loop.
ExampleNext == LoopIteration \/ Project

ExampleSpec == ExampleEntry /\ [][ExampleNext]_vars

(***************************************************************************)
(* Two calls of tabulateRCV at the same time, on different contests: the   *)
(* iterations of their loops in any order.  Each call has its own          *)
(* arguments and its own locals, declared with let inside the function.    *)
(***************************************************************************)
\* The contests of the second call: the example contest with its candidates
\* declared in another order, and a contest of two tied candidates.
OtherContests ==
    {[candidates |-> <<"B", "A", "C">>, ballots |-> ExampleBallots],
     [candidates |-> <<"B", "A">>,
      ballots |-> <<[choices |-> <<"A">>], [choices |-> <<"B", "A">>]>>],
     [candidates |-> <<"A", "B">>,
      ballots |-> <<[choices |-> <<"A">>], [choices |-> <<"B">>]>>]}

\* Mutant of OtherActive: activeCandidates is one variable of the module,
\* which both calls read.
OtherActiveShared == activeCandidates

\* The activeCandidates that the second call reads: its own local.
OtherActive == other.activeCandidates

ConcurrentEntry ==
    /\ other.pc = "none"
    /\ \E contest \in OtherContests :
           other' = [candidates |-> contest.candidates,
                     ballots |-> contest.ballots,
                     activeCandidates |-> NewSet(contest.candidates),
                     rounds |-> <<>>,
                     roundNumber |-> 1,
                     pc |-> "loop",
                     result |-> <<>>]
    /\ UNCHANGED <<tabVars, ingestVars, contestVars>>

\* One iteration of the loop of the second call.
OtherLoopIteration ==
    /\ other.pc = "loop"
    /\ Len(OtherActive) > 1
    /\ LET counts == CountRound(other.ballots, OtherActive)
           record == RoundRecord(other.roundNumber, counts, OtherActive)
           allRounds == Append(other.rounds, record)
       IN  IF RoundHasWinner(counts.voteCounts, OtherActive)
           THEN other' = [other EXCEPT
                             !.rounds = allRounds,
                             !.result = <<MajorityResult(allRounds,
                                                         other.roundNumber,
                                                         counts, OtherActive,
                                                         other.ballots)>>,
                             !.pc = "done"]
           ELSE other' = [other EXCEPT
                             !.rounds = allRounds,
                             !.activeCandidates =
                                 SetDeleteAll(OtherActive,
                                              ToEliminate(counts.voteCounts,
                                                          OtherActive)),
                             !.roundNumber = @ + 1]
    /\ UNCHANGED <<tabVars, ingestVars, contestVars>>

\* The return after the loop of the second call.
OtherFallbackReturn ==
    /\ other.pc = "loop"
    /\ Len(OtherActive) <= 1
    /\ other' = [other EXCEPT
                     !.result = <<FallbackResult(other.rounds, other.roundNumber,
                                                 OtherActive, other.ballots)>>,
                     !.pc = "done"]
    /\ UNCHANGED <<tabVars, ingestVars, contestVars>>

ConcurrentNext ==
    \/ ConcurrentEntry
    \/ LoopIteration
    \/ FallbackReturn
    \/ OtherLoopIteration
    \/ OtherFallbackReturn

ConcurrentSpec == Entry(MaxRankFair) /\ [][ConcurrentNext]_vars

\* tabulateRCV run alone, from a point of its loop to its return.
RECURSIVE RunAlone(_, _, _, _)
RunAlone(bs, active, allRounds, number) ==
    IF Len(active) > 1
    THEN LET counts == CountRound(bs, active)
             record == RoundRecord(number, counts, active)
         IN  IF RoundHasWinner(counts.voteCounts, active)
             THEN MajorityResult(Append(allRounds, record), number, counts,
                                 active, bs)
             ELSE RunAlone(bs,
                           SetDeleteAll(active,
                                        ToEliminate(counts.voteCounts, active)),
                           Append(allRounds, record), number + 1)
    ELSE FallbackResult(allRounds, number, active, bs)

TabulateRCV(bs, cs) == RunAlone(bs, NewSet(cs), <<>>, 1)

(***************************************************************************)
(* ElectionIngester: ingestFullElection and processFiles, over the table   *)
(* _processed_files.  The statements on the database succeed.              *)
(***************************************************************************)
\* File names of the election directory, by increasing size.
FilePool == <<"a.csv", "b.xlsx", "c.json", "d.txt", "e.zip", "f.rcr">>

FileNames == {FilePool[k] : k \in 1..MaxFiles}

\* scanDirectory: the files of the directory, the smaller first.
ScanDirectory(dir) ==
    LET InDir(f) == f \in dir
    IN  SelectSeq(SubSeq(FilePool, 1, MaxFiles), InDir)

\* Mutant of GetUnprocessedFiles: WHERE status = 'completed'.
GetUnprocessedFilesCompletedOnly(allFiles, table) ==
    LET processed == {f \in DOMAIN table : table[f] = "completed"}
        NotProcessed(f) == f \notin processed
    IN  SelectSeq(allFiles, NotProcessed)

\* getUnprocessedFiles: the files without a row of status 'completed' or
\* 'error'.
GetUnprocessedFiles(allFiles, table) ==
    LET processed == {f \in DOMAIN table :
                         table[f] \in {"completed", "error"}}
        NotProcessed(f) == f \notin processed
    IN  SelectSeq(allFiles, NotProcessed)

\* INSERT OR REPLACE INTO _processed_files (filename, status).
InsertOrReplace(table, f, status) == [table EXCEPT ![f] = status]

\* UPDATE _processed_files SET status = ... WHERE filename = f.
UpdateStatus(table, f, status) ==
    IF table[f] = "none" THEN table ELSE [table EXCEPT ![f] = status]

IngestInit ==
    /\ TabulationIdle
    /\ other = NoCall
    /\ ContestsIdle
    /\ processedFiles = [f \in FileNames |-> "none"]
    /\ files = <<>>
    /\ filesToProcess = <<>>
    /\ fileIndex = 1
    /\ ingestPc = "idle"
    /\ runCount = 0

\* ingestFullElection up to the call of processFiles, or to its return when
\* no file is left to process.
IngestFullElection ==
    /\ ingestPc \in {"idle", "returned"}
    /\ runCount < MaxRuns
    /\ \E dir \in SUBSET FileNames :
           /\ files' = ScanDirectory(dir)
           /\ filesToProcess' = GetUnprocessedFiles(files', processedFiles)
    /\ fileIndex' = 1
    /\ ingestPc' = IF filesToProcess' = <<>> THEN "idle" ELSE "mark"
    /\ runCount' = runCount + 1
    /\ UNCHANGED <<processedFiles, tabVars, other, contestVars>>

\* processFiles: the file of this iteration is marked as processing.
MarkProcessing ==
    /\ ingestPc = "mark"
    /\ fileIndex <= Len(filesToProcess)
    /\ processedFiles' = InsertOrReplace(processedFiles,
                                         filesToProcess[fileIndex],
                                         "processing")
    /\ ingestPc' = "process"
    /\ UNCHANGED <<files, filesToProcess, fileIndex, runCount, tabVars, other,
                   contestVars>>

\* processFiles: the file is processed, and marked as completed, or as error
\* when its processing threw; the loop goes on.
ProcessFile ==
    /\ ingestPc = "process"
    /\ \E threw \in BOOLEAN :
           processedFiles' = UpdateStatus(processedFiles,
                                          filesToProcess[fileIndex],
                                          IF threw THEN "error"
                                                   ELSE "completed")
    /\ fileIndex' = fileIndex + 1
    /\ ingestPc' = "mark"
    /\ UNCHANGED <<files, filesToProcess, runCount, tabVars, other,
                   contestVars>>

\* processFiles returns after the last file.
ProcessFilesReturn ==
    /\ ingestPc = "mark"
    /\ fileIndex > Len(filesToProcess)
    /\ ingestPc' = "returned"
    /\ UNCHANGED <<processedFiles, files, filesToProcess, fileIndex, runCount,
                   tabVars, other, contestVars>>

\* The process is stopped during processFiles: the table stays as written.
Interrupt ==
    /\ ingestPc \in {"mark", "process"}
    /\ files' = <<>>
    /\ filesToProcess' = <<>>
    /\ fileIndex' = 1
    /\ ingestPc' = "idle"
    /\ UNCHANGED <<processedFiles, runCount, tabVars, other, contestVars>>

IngestNext ==
    \/ IngestFullElection
    \/ MarkProcessing
    \/ ProcessFile
    \/ ProcessFilesReturn
    \/ Interrupt

IngestSpec == IngestInit /\ [][IngestNext]_vars

(***************************************************************************)
(* ingest_all_contests: main and ingestSingleContest.                      *)
(***************************************************************************)
\* What discoverContests may resolve to: contests, named by their office_id.
ContestLists == {[k \in 1..n |-> k] : n \in 0..MaxContests}

\* Mutant of AfterFailure: break in place of continue.
AfterFailureBreak(i, n) == n + 1

\* main: the index after a contest that failed (continue, then i++).
AfterFailure(i, n) == i + 1

\* main: the exit code after the loop.
ExitCodeAfterLoop(failures) == IF failures > 0 THEN <<1>> ELSE <<0>>

ContestsInit ==
    /\ TabulationIdle
    /\ other = NoCall
    /\ IngesterIdle
    /\ contests = <<>>
    /\ contestIndex = 1
    /\ successCount = 0
    /\ failureCount = 0
    /\ metaFile = FALSE
    /\ outcomes = <<>>
    /\ fatalError = FALSE
    /\ exitCode = <<>>
    /\ mainPc = "start"

\* main: discoverContests resolves to the contests, or it rejects (or what
\* it resolved to makes the summary throw) and the outer catch exits with
\* code 1.
DiscoverContests ==
    /\ mainPc = "start"
    /\ \/ /\ fatalError' = TRUE
          /\ exitCode' = <<1>>
          /\ mainPc' = "exited"
          /\ UNCHANGED contests
       \/ /\ \E discovered \in ContestLists : contests' = discovered
          /\ mainPc' = "loop"
          /\ UNCHANGED <<fatalError, exitCode>>
    /\ contestIndex' = 1
    /\ successCount' = 0
    /\ failureCount' = 0
    /\ UNCHANGED <<metaFile, outcomes, tabVars, other, ingestVars>>

\* ingestSingleContest up to its try: the metadata file is written, or
\* mkdirSync or writeFileSync throws and main counts a failure.
WriteMetaFile ==
    /\ mainPc = "loop"
    /\ contestIndex <= Len(contests)
    /\ \/ /\ metaFile' = TRUE
          /\ mainPc' = "run"
          /\ UNCHANGED <<contestIndex, failureCount, outcomes>>
       \/ /\ outcomes' = Append(outcomes, [contest |-> contests[contestIndex],
                                           ok |-> FALSE])
          /\ failureCount' = failureCount + 1
          /\ contestIndex' = AfterFailure(contestIndex, Len(contests))
          /\ UNCHANGED <<metaFile, mainPc>>
    /\ UNCHANGED <<contests, successCount, fatalError, exitCode, tabVars, other,
                   ingestVars>>

\* The command of the contest ends with an exit code: the finally removes
\* the metadata file, and main counts a success or a failure.
RunCommand ==
    /\ mainPc = "run"
    /\ metaFile' = FALSE
    /\ \E code \in {0, 1} :
           /\ outcomes' = Append(outcomes, [contest |-> contests[contestIndex],
                                            ok |-> code = 0])
           /\ IF code = 0
              THEN /\ successCount' = successCount + 1
                   /\ contestIndex' = contestIndex + 1
                   /\ UNCHANGED failureCount
              ELSE /\ failureCount' = failureCount + 1
                   /\ contestIndex' = AfterFailure(contestIndex, Len(contests))
                   /\ UNCHANGED successCount
    /\ mainPc' = "loop"
    /\ UNCHANGED <<contests, fatalError, exitCode, tabVars, other, ingestVars>>

\* main after the loop: exit(1) when a contest failed; otherwise main returns
\* and the process ends with code 0.
MainReturn ==
    /\ mainPc = "loop"
    /\ contestIndex > Len(contests)
    /\ exitCode' = ExitCodeAfterLoop(failureCount)
    /\ mainPc' = "exited"
    /\ UNCHANGED <<contests, contestIndex, successCount, failureCount, metaFile,
                   outcomes, fatalError, tabVars, other, ingestVars>>

ContestsNext ==
    \/ DiscoverContests
    \/ WriteMetaFile
    \/ RunCommand
    \/ MainReturn

ContestsSpec == ContestsInit /\ [][ContestsNext]_vars

(***************************************************************************)
(* Vocabulary of the properties.                                           *)
(***************************************************************************)
Returned == result # <<>>

\* The returned TabulationResult.
Res == result[1]

Last(s) == s[Len(s)]

RECURSIVE SumOfTally(_)
SumOfTally(tally) ==
    IF DOMAIN tally = {} THEN 0
    ELSE LET c == CHOOSE d \in DOMAIN tally : TRUE
         IN  tally[c] + SumOfTally([d \in DOMAIN tally \ {c} |-> tally[d]])

\* Some candidate of the round holds floor(totalActiveVotes / 2) + 1 votes.
MajorityIn(round) ==
    \E c \in DOMAIN round.tally :
        round.tally[c] >= (SumOfTally(round.tally) \div 2) + 1

\* The candidates of the round that hold its minimum tally.
LowestOf(round) ==
    {c \in DOMAIN round.tally :
        \A d \in DOMAIN round.tally : round.tally[c] <= round.tally[d]}

\* The candidates still active after the round's eliminations.
SurvivorsOf(round) == DOMAIN round.tally \ Range(round.eliminated)

NoDuplicates(s) == \A i, j \in DOMAIN s : s[i] = s[j] => i = j

(***************************************************************************)
(* C1  Conservation.  In every round record the call produces, the tally   *)
(* values and the exhausted count add up to the number of ballots, and     *)
(* each single ballot adds exactly one: to one candidate of the round or   *)
(* to the exhausted count.                                                 *)
(***************************************************************************)
C1_Conservation ==
    \A i \in DOMAIN rounds :
        LET round == rounds[i]
            zero == [voteCounts |-> [c \in DOMAIN round.tally |-> 0],
                     exhaustedCount |-> 0]
        IN  /\ SumOfTally(round.tally) + round.exhausted = Len(ballots)
            /\ \A j \in DOMAIN ballots :
                   LET one == CountBallot(zero, ballots[j],
                                          ObjectKeys(round.tally, candidates))
                   IN  SumOfTally(one.voteCounts) + one.exhaustedCount = 1

\* A second round that holds votes and exhausted ballots.
C1_Witness ==
    /\ Len(rounds) >= 2
    /\ rounds[2].exhausted > 0
    /\ SumOfTally(rounds[2].tally) > 0

(***************************************************************************)
(* C2  An empty candidates list is rejected: the call returns no           *)
(* TabulationResult.                                                       *)
(***************************************************************************)
C2_EmptyCandidatesRejected == candidates = <<>> => ~Returned

(***************************************************************************)
(* C3  With a non-empty candidates list without duplicates, the winner of  *)
(* the returned result is one of the candidates and is in no round's       *)
(* eliminated list.                                                        *)
(***************************************************************************)
C3_WinnerIsSurvivingCandidate ==
    (Returned /\ candidates # <<>> /\ NoDuplicates(candidates)) =>
        /\ Res.winner \in Range(candidates)
        /\ \A i \in DOMAIN Res.rounds :
               Res.winner \notin Range(Res.rounds[i].eliminated)

(***************************************************************************)
(* C4  Majority termination.  A round in which some candidate holds        *)
(* floor(totalActiveVotes / 2) + 1 votes concludes the call: it is the     *)
(* last round, it names the winner and the call has returned with it.      *)
(* Every round before the last is below its threshold, a round names a     *)
(* winner only with a majority (or a single candidate), and with exactly   *)
(* one candidate left the call returns without another round.              *)
(***************************************************************************)
C4_Rounds ==
    /\ \A i \in DOMAIN rounds : i < Len(rounds) => ~MajorityIn(rounds[i])
    /\ (rounds # <<>> /\ MajorityIn(Last(rounds))) =>
           /\ pc = "done"
           /\ Last(rounds).winner # Null
           /\ Res.rounds = rounds
    /\ \A i \in DOMAIN rounds :
           rounds[i].winner # Null =>
               \/ MajorityIn(rounds[i])
               \/ Cardinality(DOMAIN rounds[i].tally) <= 1

C4_OneLeft ==
    (pc = "loop" /\ Len(activeCandidates) = 1) =>
        (pc' = "done" /\ rounds' = rounds)

C5_TieElimination ==
    \A i \in DOMAIN rounds :
        rounds[i].winner = Null =>
            /\ Range(rounds[i].eliminated) = LowestOf(rounds[i])
            /\ Len(rounds[i].eliminated) = Cardinality(LowestOf(rounds[i]))
            /\ i < Len(rounds) =>
                   DOMAIN rounds[i + 1].tally \cap LowestOf(rounds[i]) = {}
            /\ i = Len(rounds) =>
                   Range(activeCandidates) \cap LowestOf(rounds[i]) = {}

\* Two candidates tied for last are eliminated together, and a round follows.
C5_Witness ==
    /\ Len(rounds) >= 2
    /\ Len(rounds[1].eliminated) >= 2
    /\ SumOfTally(rounds[2].tally) > 0

(***************************************************************************)
(* C6  Monotonic shrink and termination.  Every round that names no winner *)
(* leaves fewer active candidates than it counted, every round counts      *)
(* fewer candidates than the round before it, there are never more rounds  *)
(* than candidates, and the call returns.                                  *)
(***************************************************************************)
C6_Shrinks ==
    /\ Len(rounds) <= Len(candidates)
    /\ \A i \in DOMAIN rounds :
           /\ i < Len(rounds) =>
                  Cardinality(DOMAIN rounds[i + 1].tally)
                      < Cardinality(DOMAIN rounds[i].tally)
           /\ (i = Len(rounds) /\ rounds[i].winner = Null) =>
                  Len(activeCandidates) < Cardinality(DOMAIN rounds[i].tally)

C6_StepShrinks ==
    (pc = "loop" /\ pc' = "loop") =>
        Len(activeCandidates') < Len(activeCandidates)

\* C6: the rounds shrink (C6_Shrinks), every pass through the loop that does
\* not return leaves fewer active candidates (C6_StepShrinks), and the call
\* returns.
C6_ShrinkAndTerminate ==
    /\ [](C6_Shrinks)
    /\ [][C6_StepShrinks]_vars
    /\ <>(pc = "done")

\* A run of three rounds, each eliminating one candidate, has returned.
C6_Witness ==
    /\ pc = "done"
    /\ Len(rounds) = 3
    /\ Len(rounds[1].eliminated) = 1
    /\ Len(rounds[2].eliminated) = 1

(***************************************************************************)
(* C7  Single candidate.  With candidates = [A] the result names A the     *)
(* winner and holds exactly one round, with nobody eliminated and a tally  *)
(* entry for A.                                                            *)
(***************************************************************************)
C7_SingleCandidate ==
    (Returned /\ candidates = <<"A">>) =>
        /\ Res.winner = "A"
        /\ Len(Res.rounds) = 1
        /\ Res.rounds[1].eliminated = <<>>
        /\ "A" \in DOMAIN Res.rounds[1].tally

(***************************************************************************)
(* C8  Conclusion record.  The last round of every result has nobody       *)
(* eliminated and names the result's winner; every earlier round names no  *)
(* winner and eliminates somebody.                                         *)
(***************************************************************************)
C8_ConclusionRecord ==
    Returned =>
        /\ Res.rounds # <<>>
        /\ Last(Res.rounds).eliminated = <<>>
        /\ Last(Res.rounds).winner # Null
        /\ Last(Res.rounds).winner = Res.winner
        /\ \A i \in DOMAIN Res.rounds :
               i < Len(Res.rounds) =>
                   /\ Res.rounds[i].winner = Null
                   /\ Res.rounds[i].eliminated # <<>>

(***************************************************************************)
(* C9  When the eliminations of a round that names no winner leave exactly *)
(* one candidate, the result holds a next round, and that round names the  *)
(* remaining candidate the winner.                                         *)
(***************************************************************************)
C9_LastCandidateRound ==
    Returned =>
        \A i \in DOMAIN Res.rounds :
            (/\ Res.rounds[i].winner = Null
             /\ Cardinality(SurvivorsOf(Res.rounds[i])) = 1) =>
                /\ i < Len(Res.rounds)
                /\ {Res.rounds[i + 1].winner} = SurvivorsOf(Res.rounds[i])

(***************************************************************************)
(* C10  The finalTally of every result is the tally of its last round.     *)
(***************************************************************************)
C10_FinalTallyIsLastTally ==
    (Returned /\ Res.rounds # <<>>) =>
        Res.finalTally = Last(Res.rounds).tally

(***************************************************************************)
(* C12  First-active-choice counting.  In every round each ballot gives    *)
(* its one vote to the first choice of its ranking that is active in the   *)
(* round, whatever the ranks before it name (eliminated candidates or      *)
(* names that are no candidate), and a ballot that lists a candidate twice *)
(* gives it one vote: the tally of every candidate of a round is the       *)
(* number of ballots whose first active choice it is.                      *)
(***************************************************************************)
\* The first rank of the ballot that names one of the active candidates,
\* 0 if none does.
FirstActiveRank(ballot, activeSet) ==
    LET ranks == {k \in DOMAIN ballot.choices : ballot.choices[k] \in activeSet}
    IN  IF ranks = {} THEN 0 ELSE CHOOSE k \in ranks : \A l \in ranks : k <= l

\* The ballots that vote for candidate c when activeSet is active.
BallotsFor(c, activeSet) ==
    {j \in DOMAIN ballots :
        /\ FirstActiveRank(ballots[j], activeSet) > 0
        /\ ballots[j].choices[FirstActiveRank(ballots[j], activeSet)] = c}

\* C12: in every round, the tally of every candidate is the number of
\* ballots whose first active choice is that candidate.
C12_FirstActiveChoiceCounted ==
    \A i \in DOMAIN rounds :
        \A c \in DOMAIN rounds[i].tally :
            rounds[i].tally[c] = Cardinality(BallotsFor(c, DOMAIN rounds[i].tally))

\* In a second round a ballot votes with its second rank, its first being
\* no longer active, and a ballot that names its candidate twice has voted.
C12_Witness ==
    /\ Len(rounds) >= 2
    /\ \E j \in DOMAIN ballots :
           FirstActiveRank(ballots[j], DOMAIN rounds[2].tally) = 2
    /\ \E j \in DOMAIN ballots :
           /\ Len(ballots[j].choices) = 2
           /\ ballots[j].choices[1] = ballots[j].choices[2]
           /\ ballots[j].choices[1] \in DOMAIN rounds[2].tally

(***************************************************************************)
(* C13  A ballot without choices, or whose choices all name identifiers    *)
(* that are not candidates, is counted in the exhausted count of every     *)
(* recorded round (in round 1 the exhausted count is exactly the number of *)
(* such ballots), adds to no candidate's tally in any round, and raises   *)
(* no error: the call ends with a returned result, whose totalBallots      *)
(* counts these ballots with the others.                                   *)
(***************************************************************************)
\* The ballots that name no candidate.
NamesNoCandidate ==
    {j \in DOMAIN ballots :
        \A k \in DOMAIN ballots[j].choices :
            ballots[j].choices[k] \notin Range(candidates)}

\* C13: the ballots that name no candidate are in the exhausted count of
\* every round and in no tally, and the call returns with them counted.
C13_NoCandidateBallotsExhausted ==
    /\ \A i \in DOMAIN rounds :
           /\ rounds[i].exhausted >= Cardinality(NamesNoCandidate)
           /\ i = 1 => rounds[i].exhausted = Cardinality(NamesNoCandidate)
           /\ \A c \in DOMAIN rounds[i].tally :
                  rounds[i].tally[c] <=
                      Cardinality({j \in DOMAIN ballots \ NamesNoCandidate :
                                      c \in Range(ballots[j].choices)})
    /\ pc = "done" => (Returned /\ Res.totalBallots = Len(ballots))

\* Two rounds are recorded on ballots among which one has no choices and one
\* names twice a name that is no candidate.
C13_Witness ==
    /\ Len(rounds) >= 2
    /\ SumOfTally(rounds[2].tally) > 0
    /\ \E j \in NamesNoCandidate : ballots[j].choices = <<>>
    /\ \E j \in NamesNoCandidate : Len(ballots[j].choices) = 2

(***************************************************************************)
(* C14  Winner tie-break.  When several candidates share the maximum tally *)
(* in the round that ends a result, the winner that round reports is the   *)
(* first of them in the order of the candidates list.  (A round before the *)
(* last reports no winner.)                                                *)
(***************************************************************************)
\* The candidates of the round that hold its maximum tally.
HighestOf(round) ==
    {c \in DOMAIN round.tally :
        \A d \in DOMAIN round.tally : round.tally[d] <= round.tally[c]}

\* The first candidate of the set in declaration order.
FirstDeclared(set) ==
    candidates[CHOOSE i \in DOMAIN candidates :
                   /\ candidates[i] \in set
                   /\ \A j \in 1..(i - 1) : candidates[j] \notin set]

Projected == candidateVotes # <<>>

\* The CandidatePerformance list main holds.
Perf == candidateVotes[1]

\* The candidates that a round before the last one of the result eliminated.
EliminatedBeforeFinal ==
    UNION {Range(Res.rounds[i].eliminated) : i \in 1..(Len(Res.rounds) - 1)}

(***************************************************************************)
(* C15  Projection consistency.  In the projection of every result, each   *)
(* candidate's transferVotes is at least 0, and for a candidate that no    *)
(* round before the final one eliminated, firstRoundVotes + transferVotes  *)
(* is the candidate's tally in the final round.                            *)
(***************************************************************************)
C15_ProjectionConsistency ==
    Projected =>
        \A k \in DOMAIN Perf :
            /\ Perf[k].transferVotes >= 0
            /\ (Res.rounds # <<>>
                    /\ Perf[k].candidate \notin EliminatedBeforeFinal) =>
                   /\ Perf[k].candidate \in DOMAIN Last(Res.rounds).tally
                   /\ Perf[k].firstRoundVotes + Perf[k].transferVotes
                          = Last(Res.rounds).tally[Perf[k].candidate]

\* The projection of a result of two rounds or more in which a candidate of
\* the final round has gained votes since the first.
C15_Witness ==
    /\ Projected
    /\ Len(Res.rounds) >= 2
    /\ \E k \in DOMAIN Perf :
           /\ Perf[k].candidate \in DOMAIN Last(Res.rounds).tally
           /\ Perf[k].transferVotes > 0
           /\ Perf[k].firstRoundVotes > 0

(***************************************************************************)
(* C16  Projection winner flag.  In the projection of a result, the winner *)
(* flag of a candidate is true exactly when the candidate is the result's  *)
(* winner; so when the result names a candidate the winner, exactly one    *)
(* entry of the projection has the flag.                                   *)
(***************************************************************************)
C16_WinnerFlag ==
    Projected =>
        /\ \A k \in DOMAIN Perf :
               Perf[k].winner <=> (Perf[k].candidate = Res.winner)
        /\ Res.winner \in Range(candidates) =>
               Cardinality({k \in DOMAIN Perf : Perf[k].winner}) = 1

(***************************************************************************)
(* C17  Projection eliminationRound.  The roundEliminated of a candidate   *)
(* is the index, counted from 1, of the one round whose eliminated list    *)
(* contains the candidate, and that round record's round number; it is     *)
(* null when no round's eliminated list contains the candidate.            *)
(***************************************************************************)
\* The indexes of the rounds of the result that eliminated the candidate.
RoundsEliminating(c) ==
    {i \in DOMAIN Res.rounds : c \in Range(Res.rounds[i].eliminated)}

\* C17: roundEliminated is the index and the number of the one round that
\* eliminated the candidate, or null if no round did.
C17_RoundEliminated ==
    Projected =>
        \A k \in DOMAIN Perf :
            LET hits == RoundsEliminating(Perf[k].candidate)
            IN  /\ Cardinality(hits) <= 1
                /\ hits = {} => Perf[k].roundEliminated = <<>>
                /\ \A i \in hits :
                       /\ Perf[k].roundEliminated = <<i>>
                       /\ Res.rounds[i].round = i

\* The projection holds a candidate eliminated in round 1, one eliminated in
\* round 2 and one never eliminated.
C17_Witness ==
    /\ Projected
    /\ \E k \in DOMAIN Perf : Perf[k].roundEliminated = <<1>>
    /\ \E k \in DOMAIN Perf : Perf[k].roundEliminated = <<2>>
    /\ \E k \in DOMAIN Perf : Perf[k].roundEliminated = <<>>

(***************************************************************************)
(* C18  Projection ordering.  The CandidatePerformance list holds one      *)
(* entry per candidate, in descending order of firstRoundVotes +           *)
(* transferVotes, and entries with equal totals are in the order their     *)
(* candidates have in the candidates list.                                 *)
(***************************************************************************)
\* The place of a candidate in the candidates list.
DeclaredAt(c) == CHOOSE i \in DOMAIN candidates : candidates[i] = c

PerfTotal(k) == Perf[k].firstRoundVotes + Perf[k].transferVotes

\* C18: the projection is in descending order of total, and in declaration
\* order among equal totals.
C18_ProjectionOrdering ==
    Projected =>
        /\ Len(Perf) = Len(candidates)
        /\ {Perf[k].candidate : k \in DOMAIN Perf} = Range(candidates)
        /\ \A k, l \in DOMAIN Perf :
               k < l =>
                   /\ PerfTotal(k) >= PerfTotal(l)
                   /\ PerfTotal(k) = PerfTotal(l) =>
                          DeclaredAt(Perf[k].candidate)
                              < DeclaredAt(Perf[l].candidate)

\* The sort has moved a candidate in front of one declared before it, and
\* has left two candidates of equal positive totals next to each other.
C18_Witness ==
    /\ Projected
    /\ \E k, l \in DOMAIN Perf :
           /\ k < l
           /\ DeclaredAt(Perf[k].candidate) > DeclaredAt(Perf[l].candidate)
    /\ \E k \in DOMAIN Perf :
           /\ k < Len(Perf)
           /\ PerfTotal(k) = PerfTotal(k + 1)
           /\ PerfTotal(k) > 0

(***************************************************************************)
(* C19  Allocations view.  The allocations of every round hold exactly one *)
(* entry per candidate active at the start of the round, with that         *)
(* candidate's tally, and one entry of the exhausted marker, with the      *)
(* exhausted count, if and only if that count is above 0; so the votes of  *)
(* a round's allocations add up to the number of ballots.                  *)
(***************************************************************************)
\* The candidates that no round before round i has eliminated.
ActiveAtStart(i) ==
    Range(candidates) \ UNION {Range(rounds[j].eliminated) : j \in 1..(i - 1)}

\* The places of the round's allocations that name the allocatee.
EntriesOf(round, allocatee) ==
    {k \in DOMAIN round.allocations : round.allocations[k].allocatee = allocatee}

\* C19: the allocations of a round are its tally entries, one per active
\* candidate, and the exhausted entry exactly when exhausted > 0; their
\* votes add up to the number of ballots.
C19_AllocationsView ==
    \A i \in DOMAIN rounds :
        LET round == rounds[i]
        IN  /\ \A c \in ActiveAtStart(i) :
                   /\ Cardinality(EntriesOf(round, c)) = 1
                   /\ \A k \in EntriesOf(round, c) :
                          round.allocations[k].votes = round.tally[c]
            /\ \A k \in DOMAIN round.allocations :
                   round.allocations[k].allocatee
                       \in ActiveAtStart(i) \cup {ExhaustedMarker}
            /\ Cardinality(EntriesOf(round, ExhaustedMarker))
                   = IF round.exhausted > 0 THEN 1 ELSE 0
            /\ \A k \in EntriesOf(round, ExhaustedMarker) :
                   round.allocations[k].votes = round.exhausted
            /\ SumSeq([k \in DOMAIN round.allocations |->
                           round.allocations[k].votes]) = Len(ballots)

\* A first round without exhausted ballots and a second round with some.
C19_Witness ==
    /\ Len(rounds) >= 2
    /\ rounds[1].exhausted = 0
    /\ EntriesOf(rounds[1], ExhaustedMarker) = {}
    /\ rounds[2].exhausted > 0
    /\ EntriesOf(rounds[2], ExhaustedMarker) # {}

(***************************************************************************)
(* C20  Worked example.  For the candidates A, B, C and the ballots        *)
(* 3 x [A, B], 2 x [B, A], 1 x [C], in whatever order they are given, the  *)
(* call returns from inside the loop with exactly two rounds: round 1 with *)
(* tally A=3, B=2, C=1, exhausted 0, eliminated [C] and winner null; round *)
(* 2 with tally A=3, B=2, exhausted 1, eliminated [] and winner A; and the *)
(* result's winner is A.                                                   *)
(***************************************************************************)
C20_WorkedExample ==
    /\ pc = "loop" => Len(activeCandidates) > 1
    /\ pc = "done" =>
           /\ Returned
           /\ Len(Res.rounds) = 2
           /\ Res.totalRounds = 2
           /\ Res.rounds[1].round = 1
           /\ Res.rounds[1].tally = ("A" :> 3) @@ ("B" :> 2) @@ ("C" :> 1)
           /\ Res.rounds[1].exhausted = 0
           /\ Res.rounds[1].eliminated = <<"C">>
           /\ Res.rounds[1].winner = Null
           /\ Res.rounds[2].round = 2
           /\ Res.rounds[2].tally = ("A" :> 3) @@ ("B" :> 2)
           /\ Res.rounds[2].exhausted = 1
           /\ Res.rounds[2].eliminated = <<>>
           /\ Res.rounds[2].winner = "A"
           /\ Res.winner = "A"

\* The call has returned on the example given with C declared first and the
\* ballot for C cast first.
C20_Witness ==
    /\ pc = "done"
    /\ Len(Res.rounds) = 2
    /\ candidates = <<"C", "B", "A">>
    /\ ballots[1].choices = <<"C">>
    /\ Len(ballots) = 6

(***************************************************************************)
(* C21  Independent invocations.  When the iterations of two calls of      *)
(* tabulateRCV on different contests are interleaved in any order, each    *)
(* call records, round after round, the rounds it records when it runs     *)
(* alone, and returns the result it returns when it runs alone.            *)
(***************************************************************************)
IsPrefix(s, t) == Len(s) <= Len(t) /\ s = SubSeq(t, 1, Len(s))

C21_IndependentInvocations ==
    /\ IsPrefix(rounds, TabulateRCV(ballots, candidates).rounds)
    /\ Returned => Res = TabulateRCV(ballots, candidates)
    /\ other.pc # "none" =>
           /\ IsPrefix(other.rounds,
                       TabulateRCV(other.ballots, other.candidates).rounds)
           /\ other.result # <<>> =>
                  other.result[1] =
                      TabulateRCV(other.ballots, other.candidates)

\* The second call has returned after two rounds while the first call, on a
\* contest of other candidates, is between its first and its second round.
C21_Witness ==
    /\ pc = "loop"
    /\ Len(rounds) = 1
    /\ other.pc = "done"
    /\ Len(other.rounds) >= 2
    /\ Len(candidates) # Len(other.candidates)

(***************************************************************************)
(* C22  The active set never becomes empty: when the candidates list is    *)
(* not empty, at least one candidate is active after every elimination.    *)
(***************************************************************************)
C22_ActiveNeverEmpty == candidates # <<>> => activeCandidates # <<>>

(***************************************************************************)
(* C23  Vote monotonicity.  For two consecutive recorded rounds and a      *)
(* candidate in the tallies of both, the candidate's tally in the later    *)
(* round is at least its tally in the earlier round.                       *)
(***************************************************************************)
C23_VoteMonotonicity ==
    \A i \in DOMAIN rounds :
        i < Len(rounds) =>
            \A c \in DOMAIN rounds[i].tally \cap DOMAIN rounds[i + 1].tally :
                rounds[i + 1].tally[c] >= rounds[i].tally[c]

\* Between two rounds one candidate of both has gained votes and another
\* has kept its votes, more than none.
C23_Witness ==
    /\ Len(rounds) >= 2
    /\ \E c, d \in DOMAIN rounds[2].tally :
           /\ rounds[2].tally[c] > rounds[1].tally[c]
           /\ rounds[2].tally[d] = rounds[1].tally[d]
           /\ rounds[1].tally[d] > 0

(***************************************************************************)
(* C24  Round tally domain.  The tally of round 1 has an entry for exactly *)
(* the candidates, the tally of round r+1 for exactly the keys of round    *)
(* r's tally that round r did not eliminate; an eliminated candidate is in *)
(* no later tally, and no candidate is in the eliminated list of two       *)
(* rounds (nor twice in one).                                              *)
(***************************************************************************)
C24_TallyDomain ==
    \A i \in DOMAIN rounds :
        /\ i = 1 => DOMAIN rounds[i].tally = Range(candidates)
        /\ i < Len(rounds) =>
               DOMAIN rounds[i + 1].tally
                   = DOMAIN rounds[i].tally \ Range(rounds[i].eliminated)
        /\ NoDuplicates(rounds[i].eliminated)
        /\ \A j \in DOMAIN rounds :
               i < j =>
                   /\ Range(rounds[i].eliminated) \cap DOMAIN rounds[j].tally = {}
                   /\ Range(rounds[i].eliminated)
                          \cap Range(rounds[j].eliminated) = {}

\* Two rounds on four candidates, each eliminating two tied candidates.
C24_Witness ==
    /\ Len(rounds) = 2
    /\ Len(rounds[1].eliminated) = 2
    /\ Len(rounds[2].eliminated) = 2
    /\ SumOfTally(rounds[2].tally) > 0

(***************************************************************************)
(* C25  Round numbering.  The i-th recorded round has round number i, and  *)
(* the totalRounds of every result, returned from inside the loop or after *)
(* it, is the length of its rounds.                                        *)
(***************************************************************************)
C25_RoundNumbering ==
    /\ \A i \in DOMAIN rounds : rounds[i].round = i
    /\ Returned =>
           /\ Res.totalRounds = Len(Res.rounds)
           /\ \A i \in DOMAIN Res.rounds : Res.rounds[i].round = i

\* A result of two rounds returned after the loop.
C25_Witness ==
    /\ Returned
    /\ Len(Res.rounds) = 2
    /\ Last(Res.rounds).winner = Null

(***************************************************************************)
(* C26  Input frame.  No step of the call changes the ballots list, the    *)
(* choices of any ballot or the candidates list: after the call they are   *)
(* what they were before it.                                               *)
(***************************************************************************)
C26_InputsKept == ballots' = ballots /\ candidates' = candidates

\* C26: every step leaves ballots and candidates as they were.
C26_InputFrame == [][C26_InputsKept]_vars

\* The call has returned after eliminations: its Set of active candidates
\* has shrunk and two rounds have read the ballots.
C26_Witness ==
    /\ pc = "done"
    /\ Len(rounds) >= 2
    /\ Len(activeCandidates) < Len(candidates)
    /\ \E j \in DOMAIN ballots : Len(ballots[j].choices) = 2

(***************************************************************************)
(* C27  Unique winner at conclusion.  In every round that names a winner,  *)
(* the winner's tally is strictly greater than the tally of every other    *)
(* candidate of the round: no two candidates hold the maximum of a         *)
(* concluding round.                                                       *)
(***************************************************************************)
C27_UniqueWinner ==
    \A i \in DOMAIN rounds :
        rounds[i].winner # Null =>
            /\ rounds[i].winner \in DOMAIN rounds[i].tally
            /\ \A c \in DOMAIN rounds[i].tally \ {rounds[i].winner} :
                   rounds[i].tally[c] < rounds[i].tally[rounds[i].winner]
            /\ Cardinality(HighestOf(rounds[i])) = 1

\* A second round concludes with a winner that is not the first candidate of
\* the round, against a candidate that holds votes.
C27_Witness ==
    /\ Len(rounds) = 2
    /\ rounds[2].winner # Null
    /\ rounds[2].winner # ObjectKeys(rounds[2].tally, candidates)[1]
    /\ \E c \in DOMAIN rounds[2].tally :
           c # rounds[2].winner /\ rounds[2].tally[c] > 0

(***************************************************************************)
(* C28  Exhausted monotonicity.  The exhausted count of a recorded round   *)
(* is at least that of the round before it, and a ballot with no active    *)
(* choice in a round has none in any later round.                          *)
(***************************************************************************)
C28_ExhaustedMonotonicity ==
    \A i, j \in DOMAIN rounds :
        i < j =>
            /\ rounds[i].exhausted <= rounds[j].exhausted
            /\ \A b \in DOMAIN ballots :
                   FirstActiveRank(ballots[b], DOMAIN rounds[i].tally) = 0 =>
                       FirstActiveRank(ballots[b], DOMAIN rounds[j].tally) = 0

\* More ballots are exhausted in round 2 than in round 1, among them a
\* ballot of two ranks, and round 2 still counts votes.
C28_Witness ==
    /\ Len(rounds) >= 2
    /\ rounds[2].exhausted > rounds[1].exhausted
    /\ SumOfTally(rounds[2].tally) > 0
    /\ \E b \in DOMAIN ballots :
           /\ Len(ballots[b].choices) = 2
           /\ FirstActiveRank(ballots[b], DOMAIN rounds[1].tally) = 1
           /\ FirstActiveRank(ballots[b], DOMAIN rounds[2].tally) = 0

(***************************************************************************)
(* C29  Resumable file ingestion.  A file whose status is 'completed' or   *)
(* 'error' keeps that status: no later run processes it again.  A scanned  *)
(* file whose status is 'processing' (left by an interrupted run) or that  *)
(* has no row is given to processFiles.  When processFiles returns, every  *)
(* file it was given has status 'completed' or 'error', whichever files    *)
(* threw.                                                                  *)
(***************************************************************************)
C29_Step ==
    /\ \A f \in DOMAIN processedFiles :
           processedFiles[f] \in {"completed", "error"} =>
               processedFiles'[f] = processedFiles[f]
    /\ runCount' # runCount =>
           \A k \in DOMAIN files' :
               processedFiles[files'[k]] \in {"processing", "none"} =>
                   files'[k] \in Range(filesToProcess')
    /\ ingestPc' = "returned" =>
           \A k \in DOMAIN filesToProcess' :
               processedFiles'[filesToProcess'[k]] \in {"completed", "error"}

C29_ResumableIngestion == [][C29_Step]_vars

\* A run after an interrupted one: a file completed by an earlier run is not
\* in the list, the first file of the list threw, and the loop goes on to
\* the second, which the interrupted run left in status 'processing'.
C29_Witness ==
    /\ ingestPc = "mark"
    /\ fileIndex = 2
    /\ Len(filesToProcess) >= 2
    /\ processedFiles[filesToProcess[1]] = "error"
    /\ processedFiles[filesToProcess[2]] = "processing"
    /\ \E f \in DOMAIN processedFiles :
           /\ f \notin Range(filesToProcess)
           /\ processedFiles[f] = "completed"

(***************************************************************************)
(* C30  Per-contest failure isolation.  The contests are attempted one at  *)
(* a time in discovery order; after a contest that failed the next ones    *)
(* are still attempted; the metadata file exists only while the command of *)
(* a contest runs; the two counters add up to the contests attempted, and  *)
(* at the end to the contests discovered; the exit code is 1 exactly when  *)
(* a contest failed or discovery failed, and 0 otherwise.                  *)
(***************************************************************************)
Failed == {k \in DOMAIN outcomes : ~outcomes[k].ok}

C30_FailureIsolation ==
    /\ \A k \in DOMAIN outcomes :
           k <= Len(contests) /\ outcomes[k].contest = contests[k]
    /\ mainPc \in {"loop", "run"} => Len(outcomes) = contestIndex - 1
    /\ mainPc # "run" => ~metaFile
    /\ failureCount = Cardinality(Failed)
    /\ successCount + failureCount = Len(outcomes)
    /\ mainPc = "exited" =>
           /\ ~fatalError =>
                  /\ Len(outcomes) = Len(contests)
                  /\ successCount + failureCount = Len(contests)
           /\ exitCode = IF fatalError \/ Failed # {} THEN <<1>> ELSE <<0>>

\* The first of at least three contests failed, the second succeeded, and
\* the process has exited with code 1.
C30_Witness ==
    /\ mainPc = "exited"
    /\ Len(contests) >= 3
    /\ ~outcomes[1].ok
    /\ outcomes[2].ok
    /\ exitCode = <<1>>

====
